---- MODULE Spec2Model ----
(***************************************************************************)
(* Marshal Decoder (src/main.py): the literal-to-bytes conversion, the     *)
(* text pattern extractor, the offset-scanning locator with its top-level  *)
(* outcomes, and the nested code walker with its decompile-or-disassemble  *)
(* fallback.                                                               *)
(*                                                                         *)
(* Text is a sequence of code points, binary data a sequence of bytes      *)
(* (0..255).  Python exceptions are named by their class.                  *)
(***************************************************************************)
EXTENDS Integers, Sequences, FiniteSets, TLC

VARIABLES
    cvIn, cvPc, cvOut,          \* convert_string_to_bytes: argument, position, result
    exIn, exPc, exOut,          \* extract_marshal_data_from_text
    lcIn, lcPc, unmarshalled, outcome,   \* decrypt_marshal_from_string / _from_file
    wkIn, wkPc, wkOut           \* decompile_code

vars == <<cvIn, cvPc, cvOut, exIn, exPc, exOut, lcIn, lcPc, unmarshalled, outcome,
          wkIn, wkPc, wkOut>>

cvVars == <<cvIn, cvPc, cvOut>>
exVars == <<exIn, exPc, exOut>>
lcVars == <<lcIn, lcPc, unmarshalled, outcome>>
wkVars == <<wkIn, wkPc, wkOut>>

Idle == "idle"

(***************************************************************************)
(* Bounds of the model.                                                    *)
(***************************************************************************)
MaxStrLen == 6

(***************************************************************************)
(* Sequences of length at most n over S.                                   *)
(***************************************************************************)
SeqsUpTo(S, n) == UNION {[1..k -> S] : k \in 0..n}

Min(a, b) == IF a <= b THEN a ELSE b

(***************************************************************************)
(* Python built-ins used by the conversion.                                *)
(***************************************************************************)
\* str.isspace for the ASCII range: space, \t \n \v \f \r and the separators 28..31
IsSpace(c) == c = 32 \/ c \in 9..13 \/ c \in 28..31

\* value of a hexadecimal digit, -1 for any other character
HexVal(c) ==
    IF c \in 48..57 THEN c - 48
    ELSE IF c \in 97..102 THEN c - 87
    ELSE IF c \in 65..70 THEN c - 55
    ELSE -1

\* the conversion's handlers are all "except Exception": they catch every
\* exception class derived from Exception, and nothing else
ExceptionClasses ==
    {"ValueError", "EOFError", "TypeError", "SyntaxError", "UnicodeEncodeError",
     "RecursionError"}

CatchesValueErrorOnly(exc) == exc = "ValueError"

ExceptException(exc) == exc \in ExceptionClasses

\* byte_str.replace('\\x', new)
RECURSIVE StrReplaceEsc(_, _)
StrReplaceEsc(s, new) ==
    IF s = <<>> THEN <<>>
    ELSE IF Len(s) >= 2 /\ s[1] = 92 /\ s[2] = 120
         THEN new \o StrReplaceEsc(SubSeq(s, 3, Len(s)), new)
         ELSE <<s[1]>> \o StrReplaceEsc(Tail(s), new)

\* '\\x' in byte_str
HasEsc(s) == \E i \in 1..(Len(s) - 1) : s[i] = 92 /\ s[i + 1] = 120

\* str.split() with no separator: the maximal runs of non-whitespace
RECURSIVE StrSplitFrom(_, _)
StrSplitFrom(s, cur) ==
    IF s = <<>> THEN (IF cur = <<>> THEN <<>> ELSE <<cur>>)
    ELSE IF IsSpace(s[1])
         THEN (IF cur = <<>> THEN <<>> ELSE <<cur>>) \o StrSplitFrom(Tail(s), <<>>)
         ELSE StrSplitFrom(Tail(s), Append(cur, s[1]))

StrSplit(s) == StrSplitFrom(s, <<>>)

\* str.strip()
RECURSIVE StrStrip(_)
StrStrip(s) ==
    IF s = <<>> THEN s
    ELSE IF IsSpace(s[1]) THEN StrStrip(Tail(s))
    ELSE IF IsSpace(s[Len(s)]) THEN StrStrip(SubSeq(s, 1, Len(s) - 1))
    ELSE s

\* the number written by a string of hexadecimal digits
RECURSIVE HexNumber(_, _)
HexNumber(tok, acc) ==
    IF tok = <<>> THEN acc ELSE HexNumber(Tail(tok), 16 * acc + HexVal(tok[1]))

AllHexDigits(tok) == tok # <<>> /\ \A i \in 1..Len(tok) : HexVal(tok[i]) >= 0

\* int(tok, 16) on a whitespace-free token of digits, letters and backslashes:
\* hexadecimal digits with an optional 0x / 0X prefix; -1 stands for ValueError
IntBase16(tok) ==
    IF AllHexDigits(tok) THEN HexNumber(tok, 0)
    ELSE IF Len(tok) >= 3 /\ tok[1] = 48 /\ tok[2] \in {120, 88}
            /\ AllHexDigits(SubSeq(tok, 3, Len(tok)))
         THEN HexNumber(SubSeq(tok, 3, Len(tok)), 0)
         ELSE -1

Ok(b) == [ok |-> TRUE, bytes |-> b, exc |-> "none"]
Fail(e) == [ok |-> FALSE, bytes |-> <<>>, exc |-> e]

\* line 130: bytes(int(x, 16) for x in byte_str.replace('\\x', ' ').split())
HexEscape(s) ==
    LET toks == StrSplit(StrReplaceEsc(s, <<32>>))
        vals == [i \in 1..Len(toks) |-> IntBase16(toks[i])]
    IN IF \A i \in 1..Len(toks) : vals[i] \in 0..255 THEN Ok(vals)
       ELSE Fail("ValueError")

\* an octal escape: up to three octal digits from position i; <<value, next>>
OctalEscape(s, i) ==
    LET isOct(j) == j <= Len(s) /\ s[j] \in 48..55
        n == IF isOct(i + 1) THEN (IF isOct(i + 2) THEN 3 ELSE 2) ELSE 1
        v == IF n = 1 THEN s[i] - 48
             ELSE IF n = 2 THEN 8 * (s[i] - 48) + (s[i + 1] - 48)
             ELSE 64 * (s[i] - 48) + 8 * (s[i + 1] - 48) + (s[i + 2] - 48)
    IN <<v % 256, i + n>>

\* the one-letter escapes of a bytes literal: \a \b \f \n \r \t \v \\ \' \"
SimpleEscape(c) ==
    CASE c = 97 -> 7 [] c = 98 -> 8 [] c = 102 -> 12 [] c = 110 -> 10
      [] c = 114 -> 13 [] c = 116 -> 9 [] c = 118 -> 11
      [] c = 92 -> 92 [] c = 39 -> 39 [] c = 34 -> 34
      [] OTHER -> -1

\* line 134: eval(f"b'{byte_str}'"), for a string with no quote character and no
\* line break (such a string stays inside the literal): the bytes literal's value,
\* or SyntaxError for a non-ASCII character, a truncated \x escape or a
\* backslash that escapes the closing quote
RECURSIVE EvalFrom(_, _, _)
EvalFrom(s, i, acc) ==
    IF i > Len(s) THEN Ok(acc)
    ELSE IF s[i] > 127 THEN Fail("SyntaxError")
    ELSE IF s[i] # 92 THEN EvalFrom(s, i + 1, Append(acc, s[i]))
    ELSE IF i = Len(s) THEN Fail("SyntaxError")
    ELSE IF s[i + 1] = 120
         THEN IF i + 3 <= Len(s) /\ HexVal(s[i + 2]) >= 0 /\ HexVal(s[i + 3]) >= 0
              THEN EvalFrom(s, i + 4, Append(acc, 16 * HexVal(s[i + 2]) + HexVal(s[i + 3])))
              ELSE Fail("SyntaxError")
    ELSE IF s[i + 1] \in 48..55
         THEN LET o == OctalEscape(s, i + 1) IN EvalFrom(s, o[2], Append(acc, o[1]))
    ELSE IF s[i + 1] > 127 THEN Fail("SyntaxError")
    ELSE IF SimpleEscape(s[i + 1]) >= 0
         THEN EvalFrom(s, i + 2, Append(acc, SimpleEscape(s[i + 1])))
    ELSE EvalFrom(s, i + 2, acc \o <<92, s[i + 1]>>)

EvalBytesLiteral(s) == EvalFrom(s, 1, <<>>)

\* line 137: byte_str.encode('latin-1')
Latin1(s) ==
    IF \A i \in 1..Len(s) : s[i] <= 255 THEN Ok(s) ELSE Fail("UnicodeEncodeError")

\* line 145: all(c in '0123456789abcdefABCDEF\\x' for c in byte_str.strip())
AllHexish(s) ==
    LET t == StrStrip(s)
    IN \A i \in 1..Len(t) : HexVal(t[i]) >= 0 \/ t[i] = 92 \/ t[i] = 120

\* bytes.fromhex: pairs of hexadecimal digits, ASCII whitespace between pairs skipped
RECURSIVE FromHexFrom(_, _)
FromHexFrom(s, acc) ==
    IF s = <<>> THEN Ok(acc)
    ELSE IF IsSpace(s[1]) /\ s[1] < 28 THEN FromHexFrom(Tail(s), acc)
    ELSE IF Len(s) >= 2 /\ HexVal(s[1]) >= 0 /\ HexVal(s[2]) >= 0
         THEN FromHexFrom(SubSeq(s, 3, Len(s)),
                          Append(acc, 16 * HexVal(s[1]) + HexVal(s[2])))
         ELSE Fail("ValueError")

\* lines 146-147: bytes.fromhex(byte_str.replace('\\x', ''))
HexDigits(s) == FromHexFrom(StrReplaceEsc(s, <<>>), <<>>)

\* a lower-case hexadecimal digit's character
HexChar(d) == IF d < 10 THEN 48 + d ELSE 87 + d

\* line 153: byte_str.encode('raw_unicode_escape'): a code point up to 255 is its
\* byte, one up to 0xFFFF is \uXXXX, a larger one \UXXXXXXXX
RECURSIVE RawUnicodeEscape(_)
RawUnicodeEscape(s) ==
    IF s = <<>> THEN <<>>
    ELSE LET c == s[1]
             digit(k) == HexChar((c \div (16 ^ k)) % 16)
         IN (IF c <= 255 THEN <<c>>
             ELSE IF c <= 65535
                  THEN <<92, 117, digit(3), digit(2), digit(1), digit(0)>>
                  ELSE <<92, 85, digit(7), digit(6), digit(5), digit(4),
                         digit(3), digit(2), digit(1), digit(0)>>)
            \o RawUnicodeEscape(Tail(s))

(***************************************************************************)
(* convert_string_to_bytes (lines 118-156) on a str argument.  "attempts"  *)
(* lists the conversions in the order they ran, "method" is the one that   *)
(* produced the result, "raised" the exception that left the function.     *)
(***************************************************************************)
Converted(att, b) ==
    [attempts |-> att, method |-> att[Len(att)], bytes |-> b, raised |-> "none"]

\* lines 139-156: the handler of the first try block
ConvertHandler(s, att) ==
    LET fh == HexDigits(s)
    IN IF AllHexish(s) /\ fh.ok
       THEN Converted(att \o <<"hexdigits">>, fh.bytes)
       ELSE Converted(att \o (IF AllHexish(s) THEN <<"hexdigits">> ELSE <<>>) \o <<"raw">>,
                      RawUnicodeEscape(s))

\* a conversion that tries latin-1 whenever the escaped-hex parse fails
ConvertEscFallsToLatin1(s) ==
    LET he == HexEscape(s)
        l1 == Latin1(s)
    IN IF HasEsc(s) /\ he.ok THEN Converted(<<"hexescape">>, he.bytes)
       ELSE LET att == (IF HasEsc(s) THEN <<"hexescape">> ELSE <<>>) \o <<"latin1">>
            IN IF l1.ok THEN Converted(att, l1.bytes)
               ELSE ConvertHandler(s, att)

convert_string_to_bytes(s) ==
    IF HasEsc(s)
    THEN LET he == HexEscape(s)
             ev == EvalBytesLiteral(s)
         IN IF he.ok THEN Converted(<<"hexescape">>, he.bytes)
            ELSE IF ev.ok THEN Converted(<<"hexescape", "eval">>, ev.bytes)
            ELSE IF ExceptException(ev.exc)
                 THEN ConvertHandler(s, <<"hexescape", "eval">>)
                 ELSE [attempts |-> <<"hexescape", "eval">>, method |-> "none",
                       bytes |-> <<>>, raised |-> ev.exc]
    ELSE LET l1 == Latin1(s)
         IN IF l1.ok THEN Converted(<<"latin1">>, l1.bytes)
            ELSE IF ExceptException(l1.exc) THEN ConvertHandler(s, <<"latin1">>)
            ELSE [attempts |-> <<"latin1">>, method |-> "none",
                  bytes |-> <<>>, raised |-> l1.exc]

(***************************************************************************)
(* The parts of the program a specification leaves alone.                  *)
(***************************************************************************)
ConvertIdle == cvIn = Idle /\ cvPc = Idle /\ cvOut = Idle
ExtractIdle == exIn = Idle /\ exPc = Idle /\ exOut = Idle
LocatorIdle == lcIn = Idle /\ lcPc = Idle /\ unmarshalled = Idle /\ outcome = Idle
WalkIdle == wkIn = Idle /\ wkPc = Idle /\ wkOut = Idle

(***************************************************************************)
(* SpecConvert: convert_string_to_bytes applied to every string of at most *)
(* MaxStrLen characters over a backslash, "x", the hexadecimal digit "c"   *)
(* and the euro sign (a character outside latin-1).                        *)
(***************************************************************************)
ConvertAlphabet == {92, 120, 99, 8364}

InitConvert ==
    /\ cvIn \in SeqsUpTo(ConvertAlphabet, MaxStrLen)
    /\ cvPc = "start"
    /\ cvOut = Idle
    /\ ExtractIdle /\ LocatorIdle /\ WalkIdle

Convert ==
    /\ cvPc = "start"
    /\ cvOut' = convert_string_to_bytes(cvIn)
    /\ cvPc' = "done"
    /\ UNCHANGED <<cvIn, exVars, lcVars, wkVars>>

NextConvert == Convert

SpecConvert == InitConvert /\ [][NextConvert]_vars

Tried(m) == \E i \in 1..Len(cvOut.attempts) : cvOut.attempts[i] = m

\* C8 (as claimed): the conversions are tried in the order escaped hex, latin-1,
\* hexadecimal digits, each failure falling through to the next, so the result
\* comes from the first of the three that succeeds on the string.
C8_Original ==
    cvPc = "done" =>
        LET he == HasEsc(cvIn) /\ HexEscape(cvIn).ok
            l1 == Latin1(cvIn).ok
            hd == AllHexish(cvIn) /\ HexDigits(cvIn).ok
        IN /\ he => cvOut.method = "hexescape"
           /\ (~he /\ l1) => cvOut.method = "latin1" /\ cvOut.bytes = cvIn
           /\ (~he /\ ~l1 /\ hd) => cvOut.method = "hexdigits"

\* C8 (amended): escaped hex is tried only on a string containing \x and its
\* failure leads to the evaluation of the string as a bytes literal, never to
\* latin-1; latin-1 is tried only on a string without \x; the hexadecimal-digit
\* conversion is tried only after the evaluation or latin-1 raised, and its
\* failure leads to the raw-unicode-escape encoding; the result comes from the
\* last conversion tried; a string of hexadecimal digits only is converted by
\* latin-1, character for byte.
C8_Amended ==
    cvPc = "done" =>
        LET att == cvOut.attempts
            failed(m) == CASE m = "hexescape" -> ~HexEscape(cvIn).ok
                           [] m = "eval" -> ~EvalBytesLiteral(cvIn).ok
                           [] m = "latin1" -> ~Latin1(cvIn).ok
                           [] m = "hexdigits" -> ~HexDigits(cvIn).ok
                           [] OTHER -> FALSE
        IN /\ cvOut.raised = "none"
           /\ att[1] = (IF HasEsc(cvIn) THEN "hexescape" ELSE "latin1")
           /\ Tried("latin1") <=> ~HasEsc(cvIn)
           /\ Tried("eval") <=> (HasEsc(cvIn) /\ ~HexEscape(cvIn).ok)
           /\ \A i \in 1..Len(att) :
                /\ att[i] = "eval" => i = 2 /\ att[1] = "hexescape"
                /\ att[i] = "hexdigits" => i > 1 /\ att[i - 1] \in {"eval", "latin1"}
                                           /\ AllHexish(cvIn)
                /\ att[i] = "raw" => i > 1 /\ att[i - 1] \in {"eval", "latin1", "hexdigits"}
                /\ i < Len(att) => failed(att[i])
           /\ cvOut.method = att[Len(att)]
           /\ ~failed(cvOut.method)
           /\ cvOut.bytes = (CASE cvOut.method = "hexescape" -> HexEscape(cvIn).bytes
                               [] cvOut.method = "eval" -> EvalBytesLiteral(cvIn).bytes
                               [] cvOut.method = "latin1" -> cvIn
                               [] cvOut.method = "hexdigits" -> HexDigits(cvIn).bytes
                               [] OTHER -> RawUnicodeEscape(cvIn))
           /\ AllHexDigits(cvIn) => cvOut.method = "latin1" /\ cvOut.bytes = cvIn

\* the escaped-hex parse and the literal evaluation both failed and the
\* hexadecimal-digit conversion produced the result
C8_Witness ==
    /\ cvPc = "done"
    /\ cvOut.attempts = <<"hexescape", "eval", "hexdigits">>
    /\ cvOut.method = "hexdigits"

(***************************************************************************)
(* extract_marshal_data_from_text (lines 96-116).  Each of the five        *)
(* regular expressions is a literal prefix, an optional opening quote, a   *)
(* captured run of one or more characters outside a class, and a closing   *)
(* delimiter.  The closing delimiter starts with a character of the        *)
(* excluded class, so the captured run can only be the maximal one.        *)
(***************************************************************************)
LoadsB == <<109, 97, 114, 115, 104, 97, 108, 46, 108, 111, 97, 100, 115, 40, 98>>
LoadsBytes == LoadsB \o <<121, 116, 101, 115, 40>>
ExecParen == <<101, 120, 101, 99, 40>>
Quotes == {39, 34}

\* lines 99-105, in list order
patterns == <<
    [pre |-> LoadsB, open |-> Quotes, excl |-> Quotes, close |-> <<Quotes>>],
    [pre |-> LoadsB \o <<34, 34, 34>>, open |-> {}, excl |-> {34},
     close |-> <<{34}, {34}, {34}>>],
    [pre |-> LoadsBytes, open |-> {}, excl |-> {41}, close |-> <<{41}, {41}>>],
    [pre |-> ExecParen \o LoadsB, open |-> Quotes, excl |-> Quotes, close |-> <<Quotes>>],
    [pre |-> ExecParen \o LoadsB \o <<34, 34, 34>>, open |-> {}, excl |-> {34},
     close |-> <<{34}, {34}, {34}>> ] >>

\* the first position from j on whose character is in excl (or the end of the text)
RECURSIVE RunEnd(_, _, _)
RunEnd(text, j, excl) ==
    IF j > Len(text) \/ text[j] \in excl THEN j ELSE RunEnd(text, j + 1, excl)

\* the regular expression p matched at position i of the text
MatchAt(p, text, i) ==
    LET a == i + Len(p.pre)
        b == IF p.open = {} THEN a ELSE a + 1
        e == RunEnd(text, b, p.excl)
        n == Len(p.close)
    IN IF /\ a - 1 <= Len(text)
          /\ SubSeq(text, i, a - 1) = p.pre
          /\ (p.open # {} => a <= Len(text) /\ text[a] \in p.open)
          /\ e > b
          /\ e + n - 1 <= Len(text)
          /\ \A k \in 1..n : text[e + k - 1] \in p.close[k]
       THEN [ok |-> TRUE, group |-> SubSeq(text, b, e - 1), end |-> e + n]
       ELSE [ok |-> FALSE, group |-> <<>>, end |-> i]

\* re.findall(pattern, text): the captured groups of the non-overlapping matches,
\* scanning from the left
RECURSIVE FindAllFrom(_, _, _)
FindAllFrom(p, text, i) ==
    IF i > Len(text) THEN <<>>
    ELSE LET m == MatchAt(p, text, i)
         IN IF m.ok THEN <<m.group>> \o FindAllFrom(p, text, m.end)
            ELSE FindAllFrom(p, text, i + 1)

re_findall(p, text) == FindAllFrom(p, text, 1)

\* lines 107-116 from pattern k on: "pattern" is the index of the pattern that
\* matched (the one line 110 prints), 0 for the raw content
RECURSIVE ExtractFrom(_, _)
ExtractFrom(text, k) ==
    IF k > Len(patterns) THEN [pattern |-> 0, data |-> text]
    ELSE LET matches == re_findall(patterns[k], text)
         IN IF matches # <<>> THEN [pattern |-> k, data |-> matches[1]]
            ELSE ExtractFrom(text, k + 1)

\* an extractor that returns the last match of the pattern instead of the first
RECURSIVE ExtractLastMatchFrom(_, _)
ExtractLastMatchFrom(text, k) ==
    IF k > Len(patterns) THEN [pattern |-> 0, data |-> text]
    ELSE LET matches == re_findall(patterns[k], text)
         IN IF matches # <<>> THEN [pattern |-> k, data |-> matches[Len(matches)]]
            ELSE ExtractLastMatchFrom(text, k + 1)

ExtractLastMatch(text) == ExtractLastMatchFrom(text, 1)

extract_marshal_data_from_text(text) == ExtractFrom(text, 1)

(***************************************************************************)
(* SpecExtract: the extractor applied to every text made of at most        *)
(* MaxSegs segments.  A segment is one embedding of a payload (kinds 1-5,  *)
(* one per way the patterns name), an assignment line (kind 6) or a load   *)
(* of an empty literal, which no pattern matches (kind 7).  The payload of *)
(* the segment at position n is the single letter "A", "B", ...            *)
(***************************************************************************)
MaxSegs == 3

SegKinds == 1..7

Payload(n) == <<64 + n>>

Segment(kind, n) ==
    CASE kind = 1 -> LoadsB \o <<39>> \o Payload(n) \o <<39, 41, 10>>
      [] kind = 2 -> LoadsB \o <<34, 34, 34>> \o Payload(n) \o <<34, 34, 34, 41, 10>>
      [] kind = 3 -> LoadsBytes \o Payload(n) \o <<41, 41, 10>>
      [] kind = 4 -> ExecParen \o LoadsB \o <<34>> \o Payload(n) \o <<34, 41, 41, 10>>
      [] kind = 5 -> ExecParen \o LoadsB \o <<34, 34, 34>> \o Payload(n)
                     \o <<34, 34, 34, 41, 41, 10>>
      [] kind = 6 -> <<120, 61, 49, 10>>
      [] OTHER -> LoadsB \o <<39, 39, 41, 10>>

RECURSIVE TextOf(_, _)
TextOf(segs, n) ==
    IF n > Len(segs) THEN <<>> ELSE Segment(segs[n], n) \o TextOf(segs, n + 1)

InitExtract ==
    /\ \E segs \in SeqsUpTo(SegKinds, MaxSegs) :
          exIn = [segs |-> segs, text |-> TextOf(segs, 1)]
    /\ exPc = "start"
    /\ exOut = Idle
    /\ ConvertIdle /\ LocatorIdle /\ WalkIdle

Extract ==
    /\ exPc = "start"
    /\ exOut' = extract_marshal_data_from_text(exIn.text)
    /\ exPc' = "done"
    /\ UNCHANGED <<exIn, cvVars, lcVars, wkVars>>

NextExtract == Extract

SpecExtract == InitExtract /\ [][NextExtract]_vars

\* the position of the first segment whose kind is in K, 0 when there is none
FirstSeg(segs, K) ==
    IF \E n \in 1..Len(segs) : segs[n] \in K
    THEN CHOOSE n \in 1..Len(segs) :
            segs[n] \in K /\ \A m \in 1..(n - 1) : segs[m] \notin K
    ELSE 0

\* C7: the extractor returns the first occurrence, in text order, of the first
\* pattern in list order that matches anywhere, whatever later patterns match;
\* when no pattern matches it returns the text unchanged.  On a text of
\* segments: a quoted literal (kinds 1 and 4, pattern 1) wins over a
\* triple-quoted one (kinds 2 and 5, pattern 2), which wins over a bytes(...)
\* call (kind 3, pattern 3), and the payload returned is that of the first
\* segment of the winning kind.
C7_FirstMatchOfFirstPattern ==
    exPc = "done" =>
        LET segs == exIn.segs
            q == FirstSeg(segs, {1, 4})
            t == FirstSeg(segs, {2, 5})
            b == FirstSeg(segs, {3})
        IN IF q > 0 THEN exOut = [pattern |-> 1, data |-> Payload(q)]
           ELSE IF t > 0 THEN exOut = [pattern |-> 2, data |-> Payload(t)]
           ELSE IF b > 0 THEN exOut = [pattern |-> 3, data |-> Payload(b)]
           ELSE exOut = [pattern |-> 0, data |-> exIn.text]

\* a text where a later pattern matches before the winning pattern's first
\* match, and the winning pattern matches twice
C7_Witness ==
    /\ exPc = "done"
    /\ exIn.segs = <<3, 1, 1>>
    /\ exOut.data = Payload(2)

(***************************************************************************)
(* marshal.loads (called at lines 167 and 177), for the type codes the     *)
(* model's data uses: "0" (NULL), "N", "T", "F", "i" (32-bit integer),     *)
(* ")" (small tuple), "z"/"Z" (short ASCII string), "a"/"u" (string with a *)
(* 32-bit length) and "c" (code object).  Bit 7 of a type code is the      *)
(* shareable flag.  Any other type code is "bad marshal data"; bytes after *)
(* the first object are ignored.  A code object's fields after its         *)
(* argument count are left out.  A value is its type, its truth value and  *)
(* its repr().                                                             *)
(***************************************************************************)
Value(ty, truth, text) == [type |-> ty, truthy |-> truth, repr |-> text]

PyNone == Value("NoneType", FALSE, <<"None">>)

Decoded(v, nxt) == [ok |-> TRUE, exc |-> "none", val |-> v, next |-> nxt]
DecodeError(e) == [ok |-> FALSE, exc |-> e, val |-> PyNone, next |-> 0]

\* r_long: four bytes, little-endian, signed
r_long(buf, pos) ==
    LET top == IF buf[pos + 3] >= 128 THEN buf[pos + 3] - 256 ELSE buf[pos + 3]
    IN buf[pos] + 256 * buf[pos + 1] + 65536 * buf[pos + 2] + 16777216 * top

RECURSIVE JoinRepr(_, _)
JoinRepr(items, i) ==
    IF i > Len(items) THEN <<>>
    ELSE items[i].repr \o (IF i < Len(items) \/ Len(items) = 1 THEN <<",">> ELSE <<>>)
         \o JoinRepr(items, i + 1)

PyTuple(items) == Value("tuple", items # <<>>, <<"(">> \o JoinRepr(items, 1) \o <<")">>)

PyStr(bytes) ==
    Value("str", bytes # <<>>, <<"'">> \o [i \in 1..Len(bytes) |-> ToString(bytes[i])] \o <<"'">>)

RECURSIVE r_object(_, _), r_items(_, _, _, _)
r_object(buf, pos) ==
    IF pos > Len(buf) THEN DecodeError("EOFError")
    ELSE LET code == buf[pos] % 128
             left == Len(buf) - pos
         IN CASE code = 48 -> DecodeError("TypeError")
              [] code = 78 -> Decoded(PyNone, pos + 1)
              [] code = 84 -> Decoded(Value("bool", TRUE, <<"True">>), pos + 1)
              [] code = 70 -> Decoded(Value("bool", FALSE, <<"False">>), pos + 1)
              [] code = 105 ->
                    IF left < 4 THEN DecodeError("EOFError")
                    ELSE LET n == r_long(buf, pos + 1)
                         IN Decoded(Value("int", n # 0, <<ToString(n)>>), pos + 5)
              [] code = 41 ->
                    IF left < 1 THEN DecodeError("EOFError")
                    ELSE LET r == r_items(buf, pos + 2, buf[pos + 1], <<>>)
                         IN IF r.ok THEN Decoded(PyTuple(r.val), r.next) ELSE r
              [] code \in {122, 90} ->
                    IF left < 1 \/ left - 1 < buf[pos + 1] THEN DecodeError("EOFError")
                    ELSE Decoded(PyStr(SubSeq(buf, pos + 2, pos + 1 + buf[pos + 1])),
                                 pos + 2 + buf[pos + 1])
              [] code \in {97, 117} ->
                    IF left < 4 THEN DecodeError("EOFError")
                    ELSE LET n == r_long(buf, pos + 1)
                         IN IF n < 0 THEN DecodeError("ValueError")
                            ELSE IF left - 4 < n THEN DecodeError("EOFError")
                            ELSE Decoded(PyStr(SubSeq(buf, pos + 5, pos + 4 + n)),
                                         pos + 5 + n)
              [] code = 99 ->
                    IF left < 4 THEN DecodeError("EOFError")
                    ELSE Decoded(Value("code", TRUE,
                                       <<"<code object>", ToString(r_long(buf, pos + 1))>>),
                                 pos + 5)
              [] OTHER -> DecodeError("ValueError")

r_items(buf, pos, n, acc) ==
    IF n = 0 THEN [ok |-> TRUE, exc |-> "none", val |-> acc, next |-> pos]
    ELSE LET r == r_object(buf, pos)
         IN IF r.ok THEN r_items(buf, r.next, n - 1, Append(acc, r.val)) ELSE r

marshal_loads(buf) == r_object(buf, 1)

\* data[i:]
From(data, i) == SubSeq(data, i + 1, Len(data))

(***************************************************************************)
(* unmarshal_object (lines 158-185).  The result names what the caller     *)
(* gets ("val", None when nothing decoded), whether a decode succeeded     *)
(* ("found") and at which offset (line 178 prints it), how many decode     *)
(* errors the handlers caught, and the exception that left the function.   *)
(***************************************************************************)
ScanLimit == 20

ScanBoundOneMore(data) == Min(ScanLimit, Len(data)) + 1

\* line 175: min(20, len(data))
ScanBound(data) == Min(ScanLimit, Len(data))

Returned(v, f, off, n) ==
    [val |-> v, found |-> f, offset |-> off, caught |-> n, raised |-> "none"]
Raised(e, n) ==
    [val |-> PyNone, found |-> FALSE, offset |-> 0, caught |-> n, raised |-> e]

\* lines 175-185: the trial at offset i and the ones after it
RECURSIVE ScanFrom(_, _, _)
ScanFrom(data, i, n) ==
    IF i >= ScanBound(data) THEN Returned(PyNone, FALSE, 0, n)
    ELSE LET r == marshal_loads(From(data, i))
         IN IF r.ok THEN Returned(r.val, TRUE, i, n)
            ELSE IF ExceptException(r.exc) THEN ScanFrom(data, i + 1, n + 1)
            ELSE Raised(r.exc, n)

unmarshal_object(arg) ==
    LET conv == IF arg.kind = "str" THEN convert_string_to_bytes(arg.v)
                ELSE Converted(<<"bytes">>, arg.v)
        data == conv.bytes
        first == marshal_loads(data)
    IN IF conv.raised # "none" THEN Raised(conv.raised, 0)
       ELSE IF data = <<>> THEN Returned(PyNone, FALSE, 0, 0)
       ELSE IF first.ok THEN Returned(first.val, TRUE, 0, 0)
       ELSE IF ExceptException(first.exc) THEN ScanFrom(data, 0, 1)
       ELSE Raised(first.exc, 0)

(***************************************************************************)
(* decrypt_marshal_from_string (lines 344-385) and decrypt_marshal_from_   *)
(* file (lines 285-342), up to the call of decompile_code.                 *)
(***************************************************************************)
Outcome(st, r, text) == [status |-> st, ret |-> r, text |-> text]

\* lines 313-329 and 355-371: what the caller does with the unmarshalled value
Report(u) ==
    IF u.raised # "none" THEN Outcome("Exception", FALSE, <<u.raised>>)
    ELSE IF ~u.val.truthy THEN Outcome("FailedToUnmarshal", FALSE, <<>>)
    ELSE IF u.val.type # "code" THEN Outcome("NotCodeObject", TRUE, u.val.repr)
    ELSE Outcome("Decompile", TRUE, u.val.repr)

(***************************************************************************)
(* SpecLocator.  A binary file holds k bytes of noise followed by a        *)
(* payload; the noise is zero bytes (no type code), with at most one byte  *)
(* replaced by "N" or "i".  A string or a text file holds one of a few     *)
(* literals.                                                               *)
(***************************************************************************)
MaxNoise == 22

Payloads == {
    <<78>>, <<84>>, <<70>>,             \* None, True, False
    <<105, 0, 0, 0, 0>>,                \* 0
    <<233, 5, 0, 0, 0>>,                \* 5, shareable
    <<41, 0>>, <<41, 1, 78>>,           \* (), (None,)
    <<218, 0>>,                         \* ''
    <<227, 0, 0, 0, 0>>,                \* a code object
    <<105, 5>>, <<>> }                  \* a truncated integer, nothing

Noise(k, j, b) == [i \in 1..k |-> IF i = j THEN b ELSE 0]

Strings == {
    <<>>,                                                   \* empty
    <<78>>,                                                 \* N
    <<92, 120, 52, 101>>,                                   \* \x4e
    <<92, 120, 101, 57, 92, 120, 48, 53, 92, 120, 48, 92, 120, 48, 92, 120, 48>>,
                                                            \* \xe9\x05\x0\x0\x0
    <<92, 120, 101, 51, 92, 120, 48, 48, 92, 120, 48, 48, 92, 120, 48, 48,
      92, 120, 48, 48>>,                                    \* \xe3\x00\x00\x00\x00
    <<8364>>,                                               \* a euro sign
    <<8364, 78>>,
    <<105, 5>>,                                             \* a truncated integer
    <<92, 120, 105>> }                                      \* \xi

Texts == {<<>>}
    \cup Strings
    \cup {LoadsB \o <<39>> \o s \o <<39, 41>> : s \in Strings \ {<<>>}}

InitLocator ==
    /\ \/ \E k \in 0..MaxNoise, j \in 0..MaxNoise, b \in {78, 105}, p \in Payloads :
             /\ j <= k
             /\ j = 0 => b = 78
             /\ lcIn = [entry |-> "file", ext |-> "bin", noise |-> k, payload |-> p,
                        data |-> Noise(k, j, b) \o p]
       \/ \E s \in Strings :
             lcIn = [entry |-> "string", ext |-> "none", noise |-> 0, payload |-> <<>>,
                     data |-> s]
       \/ \E s \in Texts :
             lcIn = [entry |-> "file", ext |-> "text", noise |-> 0, payload |-> <<>>,
                     data |-> s]
    /\ lcPc = "start"
    /\ unmarshalled = Idle
    /\ outcome = Idle
    /\ ConvertIdle /\ ExtractIdle /\ WalkIdle

\* lines 344-353
StringUnmarshal ==
    /\ lcPc = "start"
    /\ lcIn.entry = "string"
    /\ unmarshalled' = unmarshal_object([kind |-> "str", v |-> lcIn.data])
    /\ lcPc' = "unmarshalled"
    /\ UNCHANGED <<lcIn, outcome, cvVars, exVars, wkVars>>

\* lines 285-311: an empty content or an empty file ends the call
FileUnmarshal ==
    /\ lcPc = "start"
    /\ lcIn.entry = "file"
    /\ IF lcIn.data = <<>>
       THEN /\ outcome' = Outcome(IF lcIn.ext = "text" THEN "NoContent" ELSE "CouldNotExtract",
                                  FALSE, <<>>)
            /\ lcPc' = "done"
            /\ UNCHANGED unmarshalled
       ELSE /\ unmarshalled' =
                  (IF lcIn.ext = "text"
                   THEN unmarshal_object([kind |-> "str",
                            v |-> extract_marshal_data_from_text(lcIn.data).data])
                   ELSE unmarshal_object([kind |-> "bytes", v |-> lcIn.data]))
            /\ lcPc' = "unmarshalled"
            /\ UNCHANGED outcome
    /\ UNCHANGED <<lcIn, cvVars, exVars, wkVars>>

\* lines 313-329 and 355-371
ReportOutcome ==
    /\ lcPc = "unmarshalled"
    /\ outcome' = Report(unmarshalled)
    /\ lcPc' = "done"
    /\ UNCHANGED <<lcIn, unmarshalled, cvVars, exVars, wkVars>>

NextLocator == StringUnmarshal \/ FileUnmarshal \/ ReportOutcome

SpecLocator == InitLocator /\ [][NextLocator]_vars

(***************************************************************************)
(* Claims about the locator and the top-level outcomes.                    *)
(***************************************************************************)
BinaryInput == lcIn.entry = "file" /\ lcIn.ext = "bin"

PayloadValid == marshal_loads(lcIn.payload).ok

\* no offset before the payload decodes
NoSmallerOffsetDecodes ==
    \A o \in 0..(lcIn.noise - 1) : ~marshal_loads(From(lcIn.data, o)).ok

PayloadFoundAt(k) ==
    /\ unmarshalled.found
    /\ unmarshalled.offset = k
    /\ unmarshalled.val = marshal_loads(lcIn.payload).val

\* C1 (as claimed): on noise(k) + valid payload where no offset below k decodes,
\* the scan returns the value decoded at offset k for every k < 100 and no
\* value for every k >= 100.
C1_Original ==
    (lcPc = "unmarshalled" /\ BinaryInput /\ PayloadValid /\ NoSmallerOffsetDecodes) =>
        IF lcIn.noise < 100 THEN PayloadFoundAt(lcIn.noise) ELSE ~unmarshalled.found

\* C1 (amended): the same with the ceiling the code has: the value decoded at
\* offset k is returned for every k < 20, and no value for every k >= 20.
C1_Amended ==
    (lcPc = "unmarshalled" /\ BinaryInput /\ PayloadValid /\ NoSmallerOffsetDecodes) =>
        IF lcIn.noise < ScanLimit THEN PayloadFoundAt(lcIn.noise)
        ELSE ~unmarshalled.found /\ unmarshalled.val = PyNone

\* the payload found behind the longest noise the scan covers
C1_Witness ==
    /\ lcPc = "unmarshalled" /\ BinaryInput /\ PayloadValid /\ NoSmallerOffsetDecodes
    /\ lcIn.noise = ScanLimit - 1
    /\ PayloadFoundAt(ScanLimit - 1)
    /\ unmarshalled.caught = ScanLimit

HeaderSizes == {4, 8, 12, 16}

\* C2: for H in {4, 8, 12, 16} and a buffer of H header bytes followed by a valid
\* payload, the locator selects offset H, not a smaller offset inside the header,
\* and returns the value the payload decodes to.
C2_HeaderDetection ==
    (lcPc = "unmarshalled" /\ BinaryInput /\ PayloadValid /\ lcIn.noise \in HeaderSizes) =>
        PayloadFoundAt(lcIn.noise)

\* C5: a decode that succeeds with a value that is not a code object (None, False,
\* 0, an empty string or container included) ends in the non-fatal outcome: the
\* value's text is emitted and the call returns success; "failed to unmarshal"
\* is the outcome only when no offset decoded.
C5_TopLevelOutcomes ==
    (lcPc = "done" /\ outcome.status \notin {"NoContent", "CouldNotExtract"}) =>
        /\ (unmarshalled.found /\ unmarshalled.val.type # "code") =>
              outcome = Outcome("NotCodeObject", TRUE, unmarshalled.val.repr)
        /\ outcome.status = "FailedToUnmarshal" => ~unmarshalled.found

\* C6: whatever the input, no exception leaves unmarshal_object: every decode
\* error at a trial offset is caught, and the function returns the decoded value
\* or None.
C6_DecodeErrorsContained ==
    lcPc = "unmarshalled" =>
        /\ unmarshalled.raised = "none"
        /\ ~unmarshalled.found => unmarshalled.val = PyNone

\* an unconvertible string: every trial offset raised, and None came back
C6_Witness ==
    /\ lcPc = "unmarshalled"
    /\ lcIn.entry = "string"
    /\ lcIn.data = <<8364>>
    /\ unmarshalled.caught = 7
    /\ ~unmarshalled.found

(***************************************************************************)
(* The value graph a decode pass hands to decompile_code.  Node Root is    *)
(* the top-level code object; the other nodes are code objects, tuples,    *)
(* lists, dicts and sets.  elems[n] lists what node n holds, in order:     *)
(* the constant pool of a code object, the items of a tuple, list or set,  *)
(* the values of a dict (whose keys are scalars).  An entry is a node, or  *)
(* 0 for a scalar.  The same node in two entries is one shared object.     *)
(***************************************************************************)
MaxNodes == 3
MaxElems == 2
RecursionLimit == 6

Root == 1

Nested == 2..MaxNodes

Kinds == {"code", "tuple", "list", "dict", "set"}

KindOf(g, n) == IF n = Root THEN "code" ELSE g.kind[n]

\* hashable objects: scalars, code objects, frozensets, tuples of hashable items
RECURSIVE Hashable(_, _, _)
Hashable(g, e, fuel) ==
    \/ e = 0
    \/ /\ e # 0
       /\ KindOf(g, e) \in {"code", "set"}
    \/ /\ e # 0
       /\ KindOf(g, e) = "tuple"
       /\ fuel > 0
       /\ \A i \in 1..Len(g.elems[e]) : Hashable(g, g.elems[e][i], fuel - 1)

\* The decoder registers a list or a dict before it reads its items, and a
\* tuple, a set or a code object only once it is complete: a reference met while
\* reading may name a finished object, or a list or dict still being read.
\* DecodeFrom reads the items of n from the i-th on; anc are the objects being
\* read, done the finished ones.
RECURSIVE DecodeFrom(_, _, _, _, _)
DecodeFrom(g, n, i, anc, done) ==
    IF i > Len(g.elems[n]) THEN [ok |-> TRUE, done |-> done \cup {n}]
    ELSE LET e == g.elems[n][i]
         IN IF KindOf(g, n) = "set" /\ ~Hashable(g, e, MaxNodes)
            THEN [ok |-> FALSE, done |-> done]
            ELSE IF e = 0 \/ e \in done THEN DecodeFrom(g, n, i + 1, anc, done)
            ELSE IF e \in anc
                 THEN IF KindOf(g, e) \in {"list", "dict"}
                      THEN DecodeFrom(g, n, i + 1, anc, done)
                      ELSE [ok |-> FALSE, done |-> done]
            ELSE LET r == DecodeFrom(g, e, 1, anc \cup {e}, done)
                 IN IF r.ok THEN DecodeFrom(g, n, i + 1, anc, r.done) ELSE r

\* the graphs one decode pass can produce, every node reachable from the root
Decodable(g) ==
    LET r == DecodeFrom(g, Root, 1, {Root}, {})
    IN r.ok /\ r.done = {Root} \cup Nested

(***************************************************************************)
(* The output of decompile_code: a sequence of items, a rendered block or  *)
(* an origin label ("# Item i in container:", "# Dictionary key k:").  A   *)
(* block names its node, the depth it is indented by, whether it is the    *)
(* disassembly fallback and whether it carries the metadata lines; a label *)
(* names the container, the 0-based position and the depth.                *)
(***************************************************************************)
Block(n, d, fb, md, sh) ==
    [t |-> "block", node |-> n, depth |-> d, fallback |-> fb, meta |-> md, idx |-> 0,
     shows |-> sh]
Label(ty, n, i, d) ==
    [t |-> ty, node |-> n, depth |-> d, fallback |-> FALSE, meta |-> FALSE, idx |-> i,
     shows |-> <<>>]

\* dis.dis(code_obj) (lines 208 and 281): the code objects whose instructions the
\* text lists, the object itself and then, recursively, every code object that is
\* directly one of its constants
RECURSIVE dis_dis(_, _), DisConsts(_, _, _)
dis_dis(g, n) == <<n>> \o DisConsts(g, n, 1)

DisConsts(g, n, i) ==
    IF i > Len(g.elems[n]) THEN <<>>
    ELSE LET e == g.elems[n][i]
         IN (IF e # 0 /\ KindOf(g, e) = "code" THEN dis_dis(g, e) ELSE <<>>)
            \o DisConsts(g, n, i + 1)

\* the block of a nested code object (lines 196-212): the decompiled source, or
\* the disassembly between quotes
NestedBlock(w, n, depth) ==
    IF w.nestedFails THEN Block(n, depth, TRUE, FALSE, dis_dis(w.g, n))
    ELSE Block(n, depth, FALSE, FALSE, <<n>>)

\* the fallback of the root (lines 263-283): the metadata lines and the disassembly
RootFallback(w) == Block(Root, 0, TRUE, TRUE, dis_dis(w.g, Root))

\* handle_lambda_and_nested_code (lines 187-228) on entry e; fuel is the number
\* of stack frames left before the interpreter raises RecursionError
RECURSIVE handle_lambda_and_nested_code(_, _, _, _), HandleItems(_, _, _, _, _)
handle_lambda_and_nested_code(w, e, depth, fuel) ==
    IF fuel = 0 THEN [out |-> <<>>, raised |-> "RecursionError"]
    ELSE IF e = 0 THEN [out |-> <<>>, raised |-> "none"]
    ELSE IF KindOf(w.g, e) = "code"
         THEN [out |-> <<NestedBlock(w, e, depth)>>, raised |-> "none"]
    ELSE IF KindOf(w.g, e) \in {"list", "tuple", "dict"}
         THEN HandleItems(w, e, 1, depth, fuel)
    ELSE [out |-> <<>>, raised |-> "none"]

\* lines 216-219 and 222-226: the items of container n from the i-th on
HandleItems(w, n, i, depth, fuel) ==
    IF i > Len(w.g.elems[n]) THEN [out |-> <<>>, raised |-> "none"]
    ELSE LET r == handle_lambda_and_nested_code(w, w.g.elems[n][i], depth + 1, fuel - 1)
             ty == IF KindOf(w.g, n) = "dict" THEN "key" ELSE "item"
         IN IF r.raised # "none" THEN r
            ELSE LET rest == HandleItems(w, n, i + 1, depth, fuel)
                     here == IF r.out # <<>> THEN <<Label(ty, n, i - 1, depth)>> \o r.out
                             ELSE <<>>
                 IN IF rest.raised # "none" THEN rest
                    ELSE [out |-> here \o rest.out, raised |-> "none"]

\* lines 253-256: the constants of the root from the i-th on
RECURSIVE WalkConsts(_, _)
WalkConsts(w, i) ==
    IF i > Len(w.g.elems[Root]) THEN [out |-> <<>>, raised |-> "none"]
    ELSE LET r == handle_lambda_and_nested_code(w, w.g.elems[Root][i], 0, RecursionLimit)
         IN IF r.raised # "none" THEN r
            ELSE LET rest == WalkConsts(w, i + 1)
                 IN IF rest.raised # "none" THEN rest
                    ELSE [out |-> r.out \o rest.out, raised |-> "none"]

\* decompile_code (lines 230-283): "walk" is how the walk over the constants
\* ended, "raised" the exception that left the function
decompile_code(w) ==
    LET walk == WalkConsts(w, 1)
        fallback == <<RootFallback(w)>>
    IN IF w.rootFails THEN [out |-> fallback, walk |-> "not run", raised |-> "none"]
       ELSE IF walk.raised = "none"
            THEN [out |-> <<Block(Root, 0, FALSE, FALSE, <<Root>>)>> \o walk.out,
                  walk |-> "returned", raised |-> "none"]
       ELSE IF ExceptException(walk.raised)
            THEN [out |-> fallback, walk |-> walk.raised, raised |-> "none"]
       ELSE [out |-> <<>>, walk |-> walk.raised, raised |-> walk.raised]

(***************************************************************************)
(* SpecWalk: decompile_code on every decodable graph of MaxNodes nodes     *)
(* with at most MaxElems entries each, the render-source capability        *)
(* failing or not on the root and on the nested code objects.              *)
(***************************************************************************)
Entries == {0} \cup Nested

InitWalk ==
    /\ \E k \in [Nested -> Kinds], el \in [{Root} \cup Nested -> SeqsUpTo(Entries, MaxElems)],
          rf \in BOOLEAN, nf \in BOOLEAN :
          /\ Decodable([kind |-> k, elems |-> el])
          /\ wkIn = [g |-> [kind |-> k, elems |-> el], rootFails |-> rf, nestedFails |-> nf]
    /\ wkPc = "start"
    /\ wkOut = Idle
    /\ ConvertIdle /\ ExtractIdle /\ LocatorIdle

Decompile ==
    /\ wkPc = "start"
    /\ wkOut' = decompile_code(wkIn)
    /\ wkPc' = "done"
    /\ UNCHANGED <<wkIn, cvVars, exVars, lcVars>>

NextWalk == Decompile

SpecWalk == InitWalk /\ [][NextWalk]_vars

(***************************************************************************)
(* Claims about the walker and the render pipeline.                        *)
(***************************************************************************)
\* the render-source capability fails on node n
RenderFails(n) == IF n = Root THEN wkIn.rootFails ELSE wkIn.nestedFails

RECURSIVE Occurrences(_, _)
Occurrences(s, n) ==
    IF s = <<>> THEN 0 ELSE (IF s[1] = n THEN 1 ELSE 0) + Occurrences(Tail(s), n)

\* how many times the output presents the code of node n
RECURSIVE ShownFrom(_, _, _)
ShownFrom(out, i, n) ==
    IF i > Len(out) THEN 0 ELSE Occurrences(out[i].shows, n) + ShownFrom(out, i + 1, n)

BlocksOf(n) == {i \in 1..Len(wkOut.out) : wkOut.out[i].t = "block" /\ wkOut.out[i].node = n}

\* C3: every code object reachable from the root's constants, through tuples,
\* lists, dicts, sets and the constants of nested code objects, is rendered
\* exactly once in the output, also when the root took the fallback and when the
\* object is shared by two slots.
C3_ExactlyOnce ==
    wkPc = "done" =>
        \A n \in Nested :
            KindOf(wkIn.g, n) = "code" =>
                /\ ShownFrom(wkOut.out, 1, n) = 1
                /\ Cardinality(BlocksOf(n)) = 1

\* C4: whenever the render-source capability fails on a code object, the root or
\* a nested one, its block is a fallback block that holds the disassembly and
\* the metadata (file name, name, argument count, local variables).
C4_FallbackHasMetadata ==
    wkPc = "done" =>
        \A i \in 1..Len(wkOut.out) :
            LET b == wkOut.out[i]
            IN (b.t = "block" /\ RenderFails(b.node)) =>
                  b.fallback /\ b.shows # <<>> /\ b.shows[1] = b.node /\ b.meta

\* C9: the walk over the constants returns on every graph a decode pass can
\* produce, a list or dict that holds a reference to itself or to a container
\* around it included.
C9_WalkTerminates ==
    wkPc = "done" => wkOut.walk \in {"returned", "not run"}

\* the slots of the graph that hold node n
SlotsOf(g, n) ==
    {<<c, i>> \in ({Root} \cup Nested) \X (1..MaxElems) :
        i <= Len(g.elems[c]) /\ g.elems[c][i] = n}

\* C10: the root's block comes first; a nested block at depth 0 is a constant of
\* the root, and every deeper nested block directly follows the origin label of
\* the slot that holds its node (the 0-based item index, or the dict key) and is
\* one level deeper than that label, labels at depth 0 naming containers of the
\* root's constant pool; a code object that is element 1 of a
\* tuple in the root's constant pool, and nowhere else, yields exactly one root
\* block and exactly one nested block, labelled item 1 at depth 1.
C10_PreOrderLabels ==
    wkPc = "done" =>
        LET out == wkOut.out
            g == wkIn.g
        IN /\ out[1].t = "block" /\ out[1].node = Root
           /\ Cardinality(BlocksOf(Root)) = 1
           /\ \A p \in 2..Len(out) :
                out[p].t = "block" =>
                    IF out[p].depth = 0
                    THEN SlotsOf(g, out[p].node) \cap ({Root} \X (1..MaxElems)) # {}
                    ELSE /\ out[p - 1].t = (IF KindOf(g, out[p - 1].node) = "dict"
                                            THEN "key" ELSE "item")
                         /\ <<out[p - 1].node, out[p - 1].idx + 1>>
                               \in SlotsOf(g, out[p].node)
                         /\ out[p].depth = out[p - 1].depth + 1
           /\ \A p \in 1..Len(out) :
                (out[p].t # "block" /\ out[p].depth = 0) =>
                    SlotsOf(g, out[p].node) \cap ({Root} \X (1..MaxElems)) # {}
           /\ \A c \in Nested, tu \in Nested :
                (/\ KindOf(g, c) = "code" /\ KindOf(g, tu) = "tuple"
                 /\ SlotsOf(g, c) = {<<tu, 2>>}
                 /\ SlotsOf(g, tu) \cap ({Root} \X (1..MaxElems)) # {}
                 /\ Cardinality(SlotsOf(g, tu)) = 1) =>
                    /\ Cardinality(BlocksOf(c)) = 1
                    /\ \A p \in BlocksOf(c) :
                          out[p].depth = 1 /\ out[p - 1] = Label("item", tu, 1, 0)

====
